---- MODULE Spec2Model ----
(***************************************************************************)
(* Model of the Asian-range liquidity-sweep trading engine:                *)
(*   services/signal_detection_service.py  (SignalDetectionService)        *)
(*   services/auto_trading_service.py      (AutoTradingService)            *)
(*   services/trade_service.py             (TradeService)                  *)
(*   views/signal_views.py                 (REST entry points)             *)
(*                                                                         *)
(* Time is counted in minutes since Monday 00:00 UTC and advances along    *)
(* the instants of Clock.  Prices are integers in units of 0.0001.         *)
(* Every query of the code takes the newest row (order_by(...).first()) or *)
(* the rows of the newest signal, so rows no operation can read again are  *)
(* dropped from sweeps, signals, executions and managements.               *)
(* Arithmetic on prices is modelled on the integers; the numeric column    *)
(* types of the persistence layer are not modelled.  Attribute and method  *)
(* names are resolved against the declarations in models/ and              *)
(* trade_service.py: reading a name that is not declared raises, as it     *)
(* does in Python.                                                         *)
(***************************************************************************)
EXTENDS Integers, Sequences, FiniteSets, TLC

VARIABLES
    now,                \* wall clock, minutes since Monday 00:00 UTC
    running,            \* AutoTradingService.running
    daily_trade_count,  \* AutoTradingService.daily_trade_count
    daily_loss_count,   \* AutoTradingService.daily_loss_count
    session,            \* SignalDetectionService.current_session (TradingSession row)
    sweeps,             \* LiquiditySweep rows of the session: the newest
    signals,            \* TradeSignal rows of the session: the newest
    executions,         \* TradeExecution rows: the newest, and those of the newest signal
    managements,        \* TradeManagement rows of the newest signal
    position,           \* broker: number of open positions for the symbol
    broker,             \* broker: requests received for the newest signal
    last,               \* the operation that just ended: name and outcome
    loops,              \* number of live threads running _monitoring_loop
    inflight,           \* those of them waiting in place_market_order
    last_gpt_call_time, \* AutoTradingService.last_gpt_call_time, by stage
    wrapper_session     \* TestSignalService.current_session: no wrapper, None,
                        \* or the object the wrapped service holds

vars == <<now, running, daily_trade_count, daily_loss_count, session, sweeps,
          signals, executions, managements, position, broker, last, loops,
          inflight, last_gpt_call_time,
                   wrapper_session>>

----------------------------------------------------------------------------
(* Bounds of the model *)

MaxInstants == 6        \* instants of Clock explored
MaxPositions == 1       \* positions the broker lets be open at once
MaxRequests == 3        \* broker requests of one kind counted per signal
MaxLoops == 2           \* monitoring threads explored
MaxStageInstants == 4   \* instants of Clock explored stage by stage

\* Thursday 01:00, 05:15, 05:30, 06:00 UTC, Friday 01:00, Saturday 00:00,
\* Saturday 08:00
Clock == <<4380, 4635, 4650, 4680, 5820, 7200, 7680>>

(* Program constants *)

max_daily_trades == 3
max_daily_losses == 2
RetestWindowMinutes == 15
CooldownMinutes == 30
TradeTimeoutMinutes == 240
JoinTimeoutSeconds == 5
IdleSleepSeconds == 60
ErrorBackoffSeconds == 5
gpt_cooldown == 60
NewsBufferMinutes == 30
AtrPeriod == 14
DefaultAtrUnits == 10
AsianSessionEndHour == 8
ManageSessionEndHour == 6
MaxSpreadUnits == 2000             \* spread <= 2.0 pips, 1 pip = 0.1 = 1000 units
StopBufferUnits == 5               \* 0.0005

NoTime == 0 - 1
NoPrice == 0 - 1

(* Market data offered by the terminal.  The reference range is the one of *)
(* scenario A (high 2005.0, low 1995.0); the sweep threshold is            *)
(* max(10, 100 * 0.09) = 10 pips = 1.0.                                    *)
AsianData == [success |-> TRUE, high |-> 20050000, low |-> 19950000,
              midpoint |-> 20000000]
AsianFail == [success |-> FALSE, high |-> NoPrice, low |-> NoPrice,
              midpoint |-> NoPrice]
Bids == {19935000, 20000000, 20065000}
Spreads == {0, 5000}
\* a quote with no spread at each bid, and a wide one above the range
Ticks == [bid : Bids, spread : {0}] \cup {[bid |-> 20065000, spread |-> 5000]}
NoTick == [bid |-> NoPrice, spread |-> 0]

Ask(tick) == tick.bid + tick.spread

----------------------------------------------------------------------------
(* Clock *)

Hour(t) == (t \div 60) % 24
Weekday(t) == (t \div 1440) % 7
Date(t) == t \div 1440

----------------------------------------------------------------------------
(* Declarations the code resolves names against *)

TradeSignalFields ==
    {"session", "sweep", "symbol", "signal_type", "entry_price", "stop_loss",
     "take_profit_1", "take_profit_2", "volume", "risk_percentage",
     "risk_reward_ratio", "state", "gpt_opinion", "gpt_tokens_used",
     "created_at", "updated_at"}

TradeExecutionFields ==
    {"signal", "order_id", "execution_price", "execution_time", "status",
     "stop_loss_hit", "take_profit_1_hit", "take_profit_2_hit",
     "breakeven_moved", "trailing_stop_active", "pnl", "closed_at",
     "created_at"}

TradeServiceMethods ==
    {"place_market_order", "place_pending_order", "modify_order",
     "cancel_order", "get_open_positions", "close_position",
     "get_order_history"}

----------------------------------------------------------------------------
(* Rows *)

States == {"IDLE", "SWEPT", "CONFIRMED", "ARMED", "IN_TRADE", "COOLDOWN"}

NoSession ==
    [current_state |-> "NO_SESSION", sweep_direction |-> "NONE",
     confirmation_time |-> NoTime, armed_time |-> NoTime,
     updated_at |-> NoTime, session_date |-> NoTime,
     asian_range_high |-> NoPrice, asian_range_low |-> NoPrice,
     asian_range_midpoint |-> NoPrice]

\* Model.save(): auto_now stamps updated_at
save(s) == [s EXCEPT !.updated_at = now]

NoBroker == [orders |-> 0, sl_mods |-> 0, partial_closes |-> 0, closes |-> 0]
\* one more request of a kind, counted up to MaxRequests
Inc(n) == IF n < MaxRequests THEN n + 1 ELSE n

\* An outcome returned to the caller, and an exception leaving the callee
Res(ok, why) ==
    [success |-> ok, reason |-> why, raised |-> FALSE,
     trade_closed |-> FALSE, profit |-> 0]
Raise(why) ==
    [success |-> FALSE, reason |-> why, raised |-> TRUE,
     trade_closed |-> FALSE, profit |-> 0]

Max(a, b) == IF a >= b THEN a ELSE b
Abs(a) == IF a >= 0 THEN a ELSE 0 - a
\* round(a / b) for a >= 0, b > 0
RoundDiv(a, b) == (2 * a + b) \div (2 * b)
Last(seq) == seq[Len(seq)]

\* The state the operations act on, as one record
World ==
    [session |-> session, sweeps |-> sweeps, signals |-> signals,
     executions |-> executions, managements |-> managements,
     position |-> position, broker |-> broker, calls |-> last_gpt_call_time]

Commit(w) ==
    /\ session' = w.session
    /\ sweeps' = w.sweeps
    /\ signals' = w.signals
    /\ executions' = w.executions
    /\ managements' = w.managements
    /\ position' = w.position
    /\ broker' = w.broker
    /\ last_gpt_call_time' = w.calls

Out(w, r) == [w |-> w, res |-> r]

----------------------------------------------------------------------------
(* SignalDetectionService *)

\* a session created on every call, whether the date has one or not
initialize_session_always_creates(w, asian) ==
    Out([w EXCEPT !.session =
            [current_state |-> "IDLE", sweep_direction |-> "NONE",
             confirmation_time |-> NoTime, armed_time |-> NoTime,
             updated_at |-> now, session_date |-> Date(now),
             asian_range_high |-> asian.high,
             asian_range_low |-> asian.low,
             asian_range_midpoint |-> asian.midpoint],
            !.sweeps = <<>>, !.signals = <<>>],
        Res(TRUE, "New session created"))

\* initialize_session: today's row if there is one, else a new IDLE row
\* carrying the reference range when the terminal supplies it
initialize_session(w, asian) ==
    IF w.session # NoSession /\ w.session.session_date = Date(now)
    THEN Out(w, Res(TRUE, "Session already exists"))
    ELSE Out([w EXCEPT !.session =
                 [current_state |-> "IDLE", sweep_direction |-> "NONE",
                  confirmation_time |-> NoTime, armed_time |-> NoTime,
                  updated_at |-> now, session_date |-> Date(now),
                  asian_range_high |-> asian.high,
                  asian_range_low |-> asian.low,
                  asian_range_midpoint |-> asian.midpoint],
                 !.sweeps = <<>>, !.signals = <<>>],
             Res(TRUE, "New session created"))

\* a threshold of 9% of the range without the floor of 10 pips
_calculate_sweep_threshold_no_floor(range_tenths) ==
    RoundDiv(range_tenths * 9, 100)

\* threshold in tenths of a pip: round(max(10, range_pips * 0.09), 1)
_calculate_sweep_threshold(range_tenths) ==
    Max(100, RoundDiv(range_tenths * 9, 100))

\* range_pips in tenths of a pip: round((high - low) * 10, 1)
range_pips(asian) == RoundDiv(asian.high - asian.low, 100)

SweepDirection(asian, bid) ==
    LET thr == _calculate_sweep_threshold(range_pips(asian)) * 100
    IN  IF bid > asian.high + thr THEN "UP"
        ELSE IF bid < asian.low - thr THEN "DOWN"
        ELSE "NONE"

detect_sweep(w, asian, tick) ==
    IF w.session = NoSession THEN Out(w, Res(FALSE, "No active session"))
    ELSE IF w.session.current_state # "IDLE"
    THEN Out(w, Res(FALSE, "Invalid state"))
    ELSE IF ~asian.success
    THEN Out(w, Res(FALSE, "Failed to get Asian range data"))
    ELSE IF tick = NoTick THEN Out(w, Res(FALSE, "Failed to get current price"))
    ELSE LET dir == SweepDirection(asian, tick.bid)
         IN  IF dir = "NONE" THEN Out(w, Res(TRUE, "No sweep detected"))
             ELSE IF w.session.sweep_direction # "NONE"
                     /\ w.session.sweep_direction # dir
             THEN Out([w EXCEPT !.session =
                          save([@ EXCEPT !.current_state = "COOLDOWN"])],
                      Res(FALSE, "Both sides swept; entering cooldown"))
             ELSE Out([w EXCEPT
                          !.sweeps = <<[sweep_direction |-> dir,
                                        sweep_price |-> tick.bid]>>,
                          !.session =
                              save([@ EXCEPT !.current_state = "SWEPT",
                                             !.sweep_direction = dir])],
                      Res(TRUE, "Sweep detected"))

\* What the bars offered to confirm_reversal amount to.
\* M5: no bars; latest close outside [low, high]; close inside with a body
\*     below 1.3 x ATR; close inside with a body of at least 1.3 x ATR.
\* M1: no bars; one or two bars; three or more with the reversal pattern of
\*     _detect_choch; three or more without it.
M5Cases == {"none", "outside", "weak", "displaced"}
M1Cases == {"none", "short", "choch", "no_choch"}

\* _detect_choch: FALSE on fewer than three bars, else the pattern
_detect_choch(m1) == m1 = "choch"

\* a confirmation that gives the setup up when the terminal has no M5 bars
confirm_reversal_gives_up(w, m5, asian, m1) ==
    IF w.session = NoSession \/ w.session.current_state # "SWEPT"
    THEN Out(w, Res(FALSE, "Invalid state for reversal confirmation"))
    ELSE IF m5 = "none"
    THEN Out([w EXCEPT !.session = save([@ EXCEPT !.current_state = "COOLDOWN"])],
             Res(FALSE, "No M5 data available"))
    ELSE IF ~asian.success
    THEN Out(w, Res(FALSE, "Failed to get Asian range data"))
    ELSE IF m5 = "outside"
    THEN Out(w, Res(TRUE, "Price not back inside Asian range"))
    ELSE IF m5 = "weak" THEN Out(w, Res(TRUE, "Insufficient displacement"))
    ELSE IF m1 # "none" /\ ~_detect_choch(m1)
    THEN Out(w, Res(TRUE, "M1 CHOCH not detected"))
    ELSE Out([w EXCEPT !.session =
                 save([@ EXCEPT !.current_state = "CONFIRMED",
                                !.confirmation_time = now])],
             Res(TRUE, "confirmed"))

confirm_reversal(w, m5, asian, m1) ==
    IF w.session = NoSession \/ w.session.current_state # "SWEPT"
    THEN Out(w, Res(FALSE, "Invalid state for reversal confirmation"))
    ELSE IF m5 = "none" THEN Out(w, Res(FALSE, "No M5 data available"))
    ELSE IF ~asian.success
    THEN Out(w, Res(FALSE, "Failed to get Asian range data"))
    ELSE IF m5 = "outside"
    THEN Out(w, Res(TRUE, "Price not back inside Asian range"))
    ELSE IF m5 = "weak" THEN Out(w, Res(TRUE, "Insufficient displacement"))
    ELSE IF m1 # "none" /\ ~_detect_choch(m1)      \* the gate is skipped without bars
    THEN Out(w, Res(TRUE, "M1 CHOCH not detected"))
    ELSE Out([w EXCEPT !.session =
                 save([@ EXCEPT !.current_state = "CONFIRMED",
                                !.confirmation_time = now])],
             Res(TRUE, "confirmed"))

\* check_confluence: spread gate and news blackout; the bias gate is always
\* TRUE.  The outcome carries confluence_passed in its reason.
spread_ok(tick) == tick.spread <= MaxSpreadUnits

\* _bias: what the D1 and the H4 bars amount to
Biases == {"UNKNOWN", "BULL", "BEAR", "RANGE"}

\* a bias gate that fails a sweep against an aligned trend
bias_gate_countertrend(sweep_direction, bias_d1, bias_h4) ==
    /\ ~(sweep_direction = "UP" /\ bias_d1 = "BULL" /\ bias_h4 = "BULL")
    /\ ~(sweep_direction = "DOWN" /\ bias_d1 = "BEAR" /\ bias_h4 = "BEAR")

\* bias_gate: set True, and set True again for a sweep along both biases
bias_gate(sweep_direction, bias_d1, bias_h4) ==
    LET gate0 == TRUE
        gate1 == IF sweep_direction = "UP" /\ bias_d1 = "BULL" /\ bias_h4 = "BULL"
                 THEN TRUE ELSE gate0
        gate2 == IF sweep_direction = "DOWN" /\ bias_d1 = "BEAR" /\ bias_h4 = "BEAR"
                 THEN TRUE ELSE gate1
    IN  gate2

\* check_confluence on the quote tick, the news calendar answering news and
\* the D1 and H4 bars amounting to bias_d1 and bias_h4
check_confluence_bias(w, tick, news, bias_d1, bias_h4) ==
    IF w.session = NoSession THEN Res(FALSE, "No active session")
    ELSE IF tick = NoTick THEN Res(FALSE, "No tick data")
    ELSE IF /\ spread_ok(tick)
            /\ ~news
            /\ bias_gate(w.session.sweep_direction, bias_d1, bias_h4)
    THEN Res(TRUE, "passed")
    ELSE Res(TRUE, "not passed")

\* check_confluence as the operations call it: the outcome does not depend
\* on the biases (C16Theorem below), so they are taken as UNKNOWN
check_confluence(w, tick, news) ==
    check_confluence_bias(w, tick, news, "UNKNOWN", "UNKNOWN")

confluence_passed(r) == r.success /\ r.reason = "passed"

\* the rows of executions once a newer signal exists: the newest row only,
\* now of an older signal
Older(execs) ==
    IF execs = <<>> THEN <<>>
    ELSE <<[Last(execs) EXCEPT !.of_newest_signal = FALSE]>>

\* What get_account_info and symbol_info answer when they answer: equity in
\* account currency, point in price units (0.1), tick value per lot
Equity == 10000
Point == 1000
TickValue == 1
RiskPercent == 1                   \* risk_map: NORMAL 0.01

\* volume in hundredths of a lot:
\* max(0.01, round(risk_amount / ((stop_distance / point) * tick_value), 2))
signal_volume(equity, stop_distance, point, tick_value) ==
    Max(1, RoundDiv(100 * ((equity * RiskPercent) \div 100) * point,
                    stop_distance * tick_value))

\* sizing that goes on without the symbol's metadata
sizing_error_unchecked(account_ok, info_ok, stop_distance) ==
    IF ~account_ok THEN "Failed to get account info" ELSE "none"

\* the error that ends the sizing of generate_trade_signal, or none
sizing_error(account_ok, info_ok, stop_distance) ==
    IF ~account_ok THEN "Failed to get account info"
    ELSE IF ~info_ok THEN "Symbol info unavailable for sizing"
    ELSE IF stop_distance <= 0 THEN "Invalid sizing parameters"
    ELSE "none"

\* a signal that trades with the sweep
generate_trade_signal_with_sweep(w, tick, account_ok, info_ok) ==
    IF w.session = NoSession \/ w.session.current_state # "CONFIRMED"
    THEN Out(w, Res(FALSE, "Invalid state for signal generation"))
    ELSE IF w.sweeps = <<>> THEN Out(w, Res(FALSE, "No sweep found for session"))
    ELSE IF tick = NoTick THEN Out(w, Res(FALSE, "Failed to get current price"))
    ELSE IF w.session.asian_range_low = NoPrice
    THEN Out(w, Raise("TypeError"))      \* None - 0.0002
    ELSE
    LET sweep == Last(w.sweeps)
        up == sweep.sweep_direction = "UP"
        current_price == IF up THEN Ask(tick) ELSE tick.bid
        stop_loss == IF up THEN sweep.sweep_price + StopBufferUnits
                     ELSE sweep.sweep_price - StopBufferUnits
        stop_distance == Abs(current_price - stop_loss)
        signal ==
            [signal_type |-> IF up THEN "BUY" ELSE "SELL",
             entry_price |-> current_price,
             stop_loss |-> stop_loss,
             take_profit_1 |-> w.session.asian_range_midpoint,
             take_profit_2 |-> IF up THEN w.session.asian_range_low - 2
                               ELSE w.session.asian_range_high + 2,
             volume |-> IF stop_distance > 0
                        THEN signal_volume(Equity, stop_distance, Point, TickValue)
                        ELSE 0]
    IN  IF sizing_error(account_ok, info_ok, stop_distance) # "none"
        THEN Out(w, Res(FALSE, sizing_error(account_ok, info_ok, stop_distance)))
        ELSE Out([w EXCEPT
                     !.signals = <<signal>>,
                     !.executions = Older(@),
                     !.managements = <<>>,
                     !.broker = NoBroker,
                     !.session = save([@ EXCEPT !.current_state = "ARMED",
                                                !.armed_time = now])],
                 Res(TRUE, "signal_generated"))

generate_trade_signal(w, tick, account_ok, info_ok) ==
    IF w.session = NoSession \/ w.session.current_state # "CONFIRMED"
    THEN Out(w, Res(FALSE, "Invalid state for signal generation"))
    ELSE IF w.sweeps = <<>> THEN Out(w, Res(FALSE, "No sweep found for session"))
    ELSE IF tick = NoTick THEN Out(w, Res(FALSE, "Failed to get current price"))
    ELSE IF w.session.asian_range_low = NoPrice
    THEN Out(w, Raise("TypeError"))      \* None - 0.0002
    ELSE
    LET sweep == Last(w.sweeps)
        up == sweep.sweep_direction = "UP"
        current_price == IF up THEN Ask(tick) ELSE tick.bid
        stop_loss == IF up THEN sweep.sweep_price + StopBufferUnits
                     ELSE sweep.sweep_price - StopBufferUnits
        stop_distance == Abs(current_price - stop_loss)
        signal ==
            [signal_type |-> IF up THEN "SELL" ELSE "BUY",
             entry_price |-> current_price,
             stop_loss |-> stop_loss,
             take_profit_1 |-> w.session.asian_range_midpoint,
             take_profit_2 |-> IF up THEN w.session.asian_range_low - 2
                               ELSE w.session.asian_range_high + 2,
             volume |-> IF stop_distance > 0
                        THEN signal_volume(Equity, stop_distance, Point, TickValue)
                        ELSE 0]
    IN  IF sizing_error(account_ok, info_ok, stop_distance) # "none"
        THEN Out(w, Res(FALSE, sizing_error(account_ok, info_ok, stop_distance)))
        ELSE Out([w EXCEPT
                     !.signals = <<signal>>,
                     !.executions = Older(@),
                     !.managements = <<>>,
                     !.broker = NoBroker,
                     !.session = save([@ EXCEPT !.current_state = "ARMED",
                                                !.armed_time = now])],
                 Res(TRUE, "signal_generated"))

\* TradeExecution.objects.filter(signal=signal) for the newest signal
ExecutionsOf(w) ==
    SelectSeq(w.executions, LAMBDA e : e.of_newest_signal)

\* execute_trade once place_market_order has succeeded: the session is
\* saved IN_TRADE, then TradeExecution.objects.create is tried; db_ok is
\* whether it succeeds (its failure is swallowed by the except clause)
order_placed(w, db_ok) ==
    LET placed == [w EXCEPT !.broker.orders = Inc(@),
                            !.position = @ + 1,
                            !.session =
                                save([@ EXCEPT !.current_state = "IN_TRADE"])]
    IN  Out(IF db_ok
            THEN [placed EXCEPT !.executions =
                     Append(ExecutionsOf(w),
                            [of_newest_signal |-> TRUE,
                             execution_time |-> now])]
            ELSE placed,
            Res(TRUE, "IN_TRADE"))

\* a rejected order that ends the setup
order_answered_gives_up(w, order_ok, db_ok) ==
    IF ~order_ok
    THEN Out([w EXCEPT !.session = save([@ EXCEPT !.current_state = "COOLDOWN"])],
             Res(FALSE, "order failed"))
    ELSE order_placed(w, db_ok)

\* execute_trade from the return of place_market_order on: order_ok is the
\* broker's answer
order_answered(w, order_ok, db_ok) ==
    IF ~order_ok THEN Out(w, Res(FALSE, "order failed"))
    ELSE order_placed(w, db_ok)

\* execute_trade's volume argument when the caller gives none
NoVolume == 0 - 1

\* the volume execute_trade sends: the caller's if given, else the signal's
trade_volume(w, volume) ==
    IF volume # NoVolume THEN volume ELSE Last(w.signals).volume

\* execute_trade up to the call of place_market_order: the failure it
\* returns, or none
execute_refused(w) ==
    IF w.session = NoSession \/ w.session.current_state # "ARMED"
    THEN "No armed signal to execute"
    ELSE IF w.signals = <<>> THEN "No signal found"
    ELSE "none"

execute_trade(w, order_ok, db_ok) ==
    IF execute_refused(w) # "none" THEN Out(w, Res(FALSE, execute_refused(w)))
    ELSE order_answered(w, order_ok, db_ok)

----------------------------------------------------------------------------
(* manage_in_trade *)

\* What the terminal and the broker answer during one manage_in_trade call:
\* pos_ok   get_open_positions succeeds
\* tick     get_current_price (NoTick: none)
\* atr      mean M1 true range in price units (NoPrice: no M1 bars)
\* close_ok the broker accepts close_position
\* profit   the profit the position or the execution reports
ATRs == {NoPrice, 1000}
ManageInputs ==
    [pos_ok : BOOLEAN, tick : Ticks \cup {NoTick}, atr : ATRs,
     close_ok : BOOLEAN, profit : {-1, 1}, news : BOOLEAN]

\* TradeManagement.objects.filter(execution__signal=signal,
\*                                 action_type=type).exists()
HasAction(w, type) ==
    \E i \in 1..Len(w.managements) : w.managements[i].action_type = type

\* TradeManagement.objects.create(execution=exec_obj, ...) if exec_obj
RecordAction(w, type) ==
    IF ExecutionsOf(w) # <<>>
    THEN [w EXCEPT !.managements = Append(@, [action_type |-> type])]
    ELSE w

\* lines 589-617: no position found
position_already_closed(w, mi, why) ==
    IF ExecutionsOf(w) # <<>>
    THEN LET w2 == [w EXCEPT !.session =
                       save([@ EXCEPT !.current_state = "COOLDOWN"])]
         IN  IF "profit" \in TradeExecutionFields
             THEN Out(w2, [Res(TRUE, "Position already closed")
                             EXCEPT !.trade_closed = TRUE, !.profit = mi.profit])
             ELSE Out(w2, Res(FALSE, "AttributeError"))
    ELSE Out(w, Res(FALSE, why))

manage_price(signal, tick) ==
    IF signal.signal_type = "SELL" THEN tick.bid ELSE Ask(tick)

reached_half_r(signal, price) ==
    LET r_dist == Abs(signal.entry_price - signal.stop_loss)
    IN  IF signal.signal_type = "BUY"
        THEN 2 * price >= 2 * signal.entry_price + r_dist
        ELSE 2 * price <= 2 * signal.entry_price - r_dist

reached_one_r(signal, price) ==
    LET r_dist == Abs(signal.entry_price - signal.stop_loss)
    IN  IF signal.signal_type = "BUY"
        THEN price >= signal.entry_price + r_dist
        ELSE price <= signal.entry_price - r_dist

\* new_sl = price -/+ 1.3 * atr is better than breakeven
trail_improves(signal, price, atr) ==
    IF signal.signal_type = "BUY"
    THEN 10 * (price - signal.entry_price) > 13 * atr
    ELSE 10 * (signal.entry_price - price) > 13 * atr

reached_tp1(signal, price) ==
    IF signal.signal_type = "BUY" THEN price >= signal.take_profit_1
    ELSE price <= signal.take_profit_1

\* The steps of lines 643-759 act on m: the world, whether an exception has
\* left the try block, whether a hard exit fired, whether the ticket is gone
ManageStart(w) ==
    [w |-> w, raised |-> FALSE, trade_closed |-> FALSE, ticket_gone |-> FALSE]

\* 1. lines 643-666
move_to_breakeven(m, signal, price) ==
    IF m.raised THEN m
    ELSE IF reached_half_r(signal, price) /\ ~HasAction(m.w, "MOVE_BE")
    THEN IF "modify_position_sl_tp" \notin TradeServiceMethods
         THEN [m EXCEPT !.raised = TRUE]
         ELSE [m EXCEPT !.w = RecordAction(
                   [m.w EXCEPT !.broker.sl_mods = Inc(@)], "MOVE_BE")]
    ELSE m

\* 2. lines 668-704
trailing_stop(m, signal, price, atr) ==
    IF m.raised THEN m
    ELSE IF reached_one_r(signal, price) /\ ~HasAction(m.w, "TRAILING")
            /\ atr # NoPrice /\ trail_improves(signal, price, atr)
    THEN IF "modify_position_sl_tp" \notin TradeServiceMethods
         THEN [m EXCEPT !.raised = TRUE]
         ELSE [m EXCEPT !.w = RecordAction(
                   [m.w EXCEPT !.broker.sl_mods = Inc(@)], "TRAILING")]
    ELSE m

\* TradeService.close_position on the managed ticket
close_position(m, close_ok) ==
    IF m.raised THEN m
    ELSE [m EXCEPT !.trade_closed = TRUE,
                   !.w.broker.closes = Inc(@),
                   !.w.position = IF close_ok /\ ~m.ticket_gone THEN @ - 1 ELSE @,
                   !.ticket_gone = @ \/ close_ok]

\* 3. lines 706-730
session_end(t) == Hour(t) >= ManageSessionEndHour

trade_timed_out(w) ==
    /\ ExecutionsOf(w) # <<>>
    /\ (now - Last(ExecutionsOf(w)).execution_time) * 60
           > TradeTimeoutMinutes * 60

hard_exits(m, news, close_ok) ==
    LET m1 == IF ~m.raised /\ session_end(now)
              THEN close_position(m, close_ok) ELSE m
        m2 == IF ~m1.raised /\ news
              THEN close_position(m1, close_ok) ELSE m1
        m3 == IF ~m2.raised /\ trade_timed_out(m2.w)
              THEN close_position(m2, close_ok) ELSE m2
    IN  m3

\* 4. lines 732-759
partial_take_profit(m, signal, price) ==
    IF m.raised THEN m
    ELSE IF signal.take_profit_1 # NoPrice /\ signal.take_profit_1 # 0
            /\ ~HasAction(m.w, "PARTIAL_TP")
            /\ reached_tp1(signal, price)
    THEN IF "close_partial_position" \notin TradeServiceMethods
         THEN [m EXCEPT !.raised = TRUE]
         ELSE [m EXCEPT !.w = RecordAction(
                   [m.w EXCEPT !.broker.partial_closes = Inc(@)], "PARTIAL_TP")]
    ELSE m

\* management that moves the stop on every poll, whatever it did before
manage_in_trade_unguarded(w, mi, news) ==
    IF w.session = NoSession \/ w.session.current_state # "IN_TRADE"
    THEN Out(w, Res(FALSE, "Not in trade"))
    ELSE Out([w EXCEPT !.broker.sl_mods = Inc(@),
                       !.managements = Append(@, [action_type |-> "MOVE_BE"])],
             Res(TRUE, "managed"))

manage_in_trade(w, mi, news) ==
    IF w.session = NoSession \/ w.session.current_state # "IN_TRADE"
    THEN Out(w, Res(FALSE, "Not in trade"))
    ELSE IF w.signals = <<>> THEN Out(w, Res(FALSE, "No signal found"))
    ELSE IF ~mi.pos_ok
    THEN position_already_closed(w, mi, "No open positions and no execution record")
    ELSE IF w.position = 0
    THEN position_already_closed(w, mi, "No open positions")
    ELSE IF "take_profit1" \notin TradeSignalFields
    THEN Out(w, Res(FALSE, "AttributeError"))
    ELSE IF mi.tick = NoTick THEN Out(w, Res(FALSE, "No tick data available"))
    ELSE
    LET signal == Last(w.signals)
        price == manage_price(signal, mi.tick)
        m0 == IF signal.entry_price = signal.stop_loss
              THEN [ManageStart(w) EXCEPT !.raised = TRUE]   \* division by zero
              ELSE ManageStart(w)
        m1 == move_to_breakeven(m0, signal, price)
        m2 == trailing_stop(m1, signal, price, mi.atr)
        m3 == hard_exits(m2, news, mi.close_ok)
        m4 == partial_take_profit(m3, signal, price)
    IN  IF m4.raised THEN Out(m4.w, Res(FALSE, "error"))
        ELSE IF m4.trade_closed
        THEN Out([m4.w EXCEPT !.session =
                     save([@ EXCEPT !.current_state = "COOLDOWN"])],
                 [Res(TRUE, "trade_closed")
                    EXCEPT !.trade_closed = TRUE, !.profit = mi.profit])
        ELSE Out(m4.w, Res(TRUE, "managed"))

----------------------------------------------------------------------------
(* AutoTradingService *)

AnyTick == Ticks \cup {NoTick}
AsianAnswers == {AsianData, AsianFail}

\* get_account_info and symbol_info answer or fail; the symbol is asked
\* only once the account has answered
SizingAnswers ==
    {x \in [account_ok : BOOLEAN, info_ok : BOOLEAN] : ~x.account_ok => x.info_ok}

\* the broker's answers to an order: none accepted beyond MaxPositions
OrderAnswers(w) == IF w.position < MaxPositions THEN BOOLEAN ELSE {FALSE}

\* the answers manage_in_trade can read: without a position only pos_ok
\* and profit
ManageInputsFor(w) ==
    {mi \in ManageInputs :
        (w.position = 0 \/ ~mi.pos_ok) =>
            (mi.tick = NoTick /\ mi.atr = NoPrice /\ mi.close_ok /\ ~mi.news)}

\* no operation has just ended
Quiet == [op |-> "none", res |-> Res(TRUE, "none")]

\* outcomes are not recorded
Unrecorded == [op |-> "unrecorded", res |-> Res(TRUE, "none")]

\* the outcome of the operation that just ended, where outcomes are recorded
Record(op, r) ==
    last' = IF last = Unrecorded THEN last ELSE [op |-> op, res |-> r]

\* An operation ends: its effects are stored, its outcome recorded
Done(op, w, r, trades, losses) ==
    /\ Commit(w)
    /\ Record(op, r)
    /\ daily_trade_count' = trades
    /\ daily_loss_count' = losses

\* an operation of SignalDetectionService or a view: counters untouched
Return(op, o) == Done(op, o.w, o.res, daily_trade_count, daily_loss_count)

_is_trading_time(t) == Weekday(t) < 5

_is_asian_session(t) == Hour(t) < AsianSessionEndHour

_daily_limits_reached ==
    \/ daily_trade_count >= max_daily_trades
    \/ daily_loss_count >= max_daily_losses

\* _calculate_position_size in hundredths of a lot.  The query filters
\* TradeSignal on status, which is no field of the model: the FieldError is
\* caught and the minimum size returned.
Balance == 10000
_calculate_position_size(w, account_ok) ==
    IF ~account_ok THEN 1
    ELSE IF w.session = NoSession THEN 1
    ELSE IF "status" \notin TradeSignalFields THEN 1
    ELSE IF w.signals = <<>> THEN 1
    ELSE LET signal == Last(w.signals)
             dist == IF signal.signal_type = "BUY"
                     THEN signal.entry_price - signal.stop_loss
                     ELSE signal.stop_loss - signal.entry_price
         IN  IF dist <= 0 THEN 1
             ELSE LET size == RoundDiv(Balance * 100, dist)
                  IN  Max(1, IF size < 50 THEN size ELSE 50)

\* the stages _call_gpt_for_validation is called for
AdvisoryStages == {"SWEPT", "CONFIRMED", "ARMED", "IN_TRADE", "COOLDOWN"}

\* last_gpt_call_time = {}: no call made yet
NoCalls == [stage \in AdvisoryStages |-> NoTime]

\* the advisory calls are not followed
Untracked == [stage \in AdvisoryStages |-> NoTime - 1]

\* whether the advisory request succeeds, where the calls are followed
AdvisoryAnswers(w) == IF w.calls = Untracked THEN {TRUE} ELSE BOOLEAN

\* an advisory call whose failure abandons the setup
_call_gpt_for_validation_vetoes(w, state, api_ok) ==
    IF w.calls = Untracked THEN w
    ELSE IF w.calls[state] # NoTime /\ (now - w.calls[state]) * 60 < gpt_cooldown
    THEN w
    ELSE IF api_ok THEN [w EXCEPT !.calls[state] = now]
    ELSE [w EXCEPT !.calls[state] = now,
                   !.session = save([@ EXCEPT !.current_state = "COOLDOWN"])]

\* _call_gpt_for_validation: skipped within gpt_cooldown seconds of the last
\* call for the stage; else the call time is recorded and the request made,
\* and its failure is caught and logged
_call_gpt_for_validation(w, state, api_ok) ==
    IF w.calls = Untracked THEN w
    ELSE IF w.calls[state] # NoTime /\ (now - w.calls[state]) * 60 < gpt_cooldown
    THEN w
    ELSE [w EXCEPT !.calls[state] = now]

\* a handler ends with the outcome o, after the advisory call for the stage
\* if it makes one
Advised(op, o, called, stage) ==
    IF called
    THEN \E api_ok \in AdvisoryAnswers(o.w) :
            Return(op, Out(_call_gpt_for_validation(o.w, stage, api_ok), o.res))
    ELSE Return(op, o)

_handle_idle_state(op, w) ==
    \E asian \in AsianAnswers, tick \in AnyTick :
        LET o == detect_sweep(w, asian, tick)
        IN  Advised(op, o, o.res.success /\ o.res.reason = "Sweep detected", "SWEPT")

\* a pass that goes on to generate the signal once the reversal is confirmed
_handle_swept_state_chained(op, w) ==
    \E m5 \in M5Cases, asian \in AsianAnswers, m1 \in M1Cases, tick \in AnyTick :
        LET o == confirm_reversal(w, m5, asian, m1)
        IN  IF o.w.session.current_state = "CONFIRMED"
            THEN Return(op, generate_trade_signal(o.w, tick, TRUE, TRUE))
            ELSE Return(op, o)

_handle_swept_state(op, w) ==
    \E m5 \in M5Cases, asian \in AsianAnswers, m1 \in M1Cases :
        LET o == confirm_reversal(w, m5, asian, m1)
        IN  Advised(op, o, o.res.success /\ o.res.reason = "confirmed", "CONFIRMED")

retest_expired(s) ==
    s.confirmation_time # NoTime /\ now - s.confirmation_time > RetestWindowMinutes

\* what the M5 bars of the retest look-back amount to
RetestCases == {"none", "untouched", "touched"}

\* _handle_confirmed_state when get_current_price answers tick and the news
\* calendar answers news
_handle_confirmed_state_with(op, w, tick, news) ==
        LET conf == check_confluence(w, tick, news)
        IN  IF ~confluence_passed(conf)
            THEN Return(op, Out(w, Res(FALSE, "Confluence check failed")))
            ELSE IF retest_expired(w.session)
            THEN Return(op, Out([w EXCEPT !.session =
                                    save([@ EXCEPT !.current_state = "COOLDOWN"])],
                                Res(FALSE, "RETEST_EXPIRED")))
            ELSE IF w.session.asian_range_midpoint = NoPrice
            THEN Return(op, Out(w, Raise("TypeError")))      \* float(None)
            ELSE \E m5 \in RetestCases :
                   IF m5 = "none" THEN Return(op, Out(w, Res(FALSE, "No M5 data")))
                   ELSE IF m5 = "untouched"
                   THEN Return(op, Out(w, Res(FALSE, "Awaiting retest")))
                   ELSE \E sizing \in SizingAnswers, tick2 \in {tick, NoTick} :
                          LET sig == generate_trade_signal(w, tick, sizing.account_ok,
                                                           sizing.info_ok)
                              conf2 == check_confluence(sig.w, tick2, news)
                          IN  \* lines 346-349: a failed re-check is logged
                              IF sig.res.success /\ ~confluence_passed(conf2)
                              THEN Advised(op, Out(sig.w,
                                       Res(FALSE, "Confluence failed at arming")),
                                       TRUE, "ARMED")
                              ELSE Advised(op, sig, sig.res.success, "ARMED")

\* _handle_armed_state from the return of execute_trade on
trade_executed(op, o) ==
    \E api_ok \in AdvisoryAnswers(o.w) :
        Done(op,
             IF o.res.success
             THEN _call_gpt_for_validation(o.w, "IN_TRADE", api_ok) ELSE o.w,
             o.res,
             IF o.res.success THEN daily_trade_count + 1 ELSE daily_trade_count,
             daily_loss_count)

_handle_confirmed_state(op, w) ==
    \E tick \in AnyTick, news \in BOOLEAN :
        _handle_confirmed_state_with(op, w, tick, news)

_handle_armed_state(op, w) ==
    IF ~_is_asian_session(now)
    THEN Return(op, Out(w, Res(FALSE, "TRADE_DELAYED")))
    ELSE \E account_ok \in BOOLEAN, order_ok \in OrderAnswers(w), db_ok \in BOOLEAN :
           IF _calculate_position_size(w, account_ok) <= 0
           THEN Return(op, Out(w, Res(FALSE, "TRADE_SKIPPED")))
           ELSE trade_executed(op, execute_trade(w, order_ok, db_ok))

_handle_in_trade_state(op, w) ==
    \E mi \in ManageInputsFor(w) :
        LET o == manage_in_trade(w, mi, mi.news)
        IN  IF o.res.trade_closed
            THEN \E api_ok \in AdvisoryAnswers(o.w) :
                   Done(op,
                        _call_gpt_for_validation(
                            [o.w EXCEPT !.session =
                                save([@ EXCEPT !.current_state = "COOLDOWN"])],
                            "COOLDOWN", api_ok),
                        o.res, daily_trade_count,
                        IF o.res.profit < 0 THEN daily_loss_count + 1
                        ELSE daily_loss_count)
            ELSE Return(op, o)

\* a cooldown that ends at thirty minutes sharp
cooldown_complete_at_limit(s) ==
    s.updated_at # NoTime /\ now - s.updated_at >= CooldownMinutes

cooldown_complete(s) ==
    s.updated_at # NoTime /\ now - s.updated_at > CooldownMinutes

_handle_cooldown_state(op, w) ==
    IF cooldown_complete(w.session)
    THEN Return(op, Out([w EXCEPT !.session =
                            save([@ EXCEPT !.current_state = "IDLE"])],
                        Res(TRUE, "COOLDOWN_COMPLETE")))
    ELSE Return(op, Out(w, Res(TRUE, "cooling down")))

_execute_strategy_step(op, w) ==
    CASE w.session.current_state = "IDLE" -> _handle_idle_state(op, w)
      [] w.session.current_state = "SWEPT" -> _handle_swept_state(op, w)
      [] w.session.current_state = "CONFIRMED" -> _handle_confirmed_state(op, w)
      [] w.session.current_state = "ARMED" -> _handle_armed_state(op, w)
      [] w.session.current_state = "IN_TRADE" -> _handle_in_trade_state(op, w)
      [] w.session.current_state = "COOLDOWN" -> _handle_cooldown_state(op, w)
      [] OTHER -> Return(op, Out(w, Res(FALSE, "no session")))

\* one iteration of the body of _monitoring_loop
PassBody ==
    IF ~_is_trading_time(now)
    THEN Return("pass", Out(World, Res(FALSE, "not trading time")))
    ELSE IF _daily_limits_reached
    THEN Return("pass", Out(World, Res(FALSE, "daily limits reached")))
    ELSE IF session = NoSession
    THEN \E asian \in AsianAnswers :
            _execute_strategy_step("pass", initialize_session(World, asian).w)
    ELSE _execute_strategy_step("pass", World)

----------------------------------------------------------------------------
(* run_strategy_once: detect, confirm, confluence, signal, execute in one  *)
(* call, continuing from the state the session is in.  One quote, one     *)
(* Asian range and one news calendar serve the whole call, except that the *)
(* quote may be missing at the re-check.                                   *)

\* the answers to manage_in_trade within a call served by tick and news
ManageInputsAt(w, tick, newses) ==
    {mi \in ManageInputsFor(w) :
        /\ mi.tick \in {tick, NoTick}
        /\ mi.news \in newses \cup {FALSE}
        /\ (mi.pos_ok /\ w.position > 0) => (mi.tick = tick /\ mi.news \in newses)}

rso_in_trade(op, w, tick) ==
    \E mi \in ManageInputsAt(w, tick, BOOLEAN) :
        LET tm == manage_in_trade(w, mi, mi.news)
        IN  Return(op, Out(tm.w, Res(TRUE, "ALREADY_IN_TRADE")))

rso_armed(op, w, tick, newses) ==
    \E order_ok \in OrderAnswers(w), db_ok \in BOOLEAN :
        LET exe == execute_trade(w, order_ok, db_ok)
        IN  IF ~exe.res.success
            THEN Return(op, Out(exe.w, Res(FALSE, "EXECUTE")))
            ELSE \E mi \in ManageInputsAt(exe.w, tick, newses) :
                   LET tm == manage_in_trade(exe.w, mi, mi.news)
                   IN  Return(op, Out(tm.w, Res(TRUE, "DONE")))

\* run_strategy_once from CONFIRMED on, when the news calendar answers news
rso_confirmed_with(op, w, tick, news) ==
    LET conf == check_confluence(w, tick, news)
    IN  IF ~confluence_passed(conf)
        THEN Return(op, Out(w, Res(FALSE, "Confluence failed")))
        ELSE IF retest_expired(w.session)
        THEN Return(op, Out([w EXCEPT !.session =
                                save([@ EXCEPT !.current_state = "COOLDOWN"])],
                            Res(FALSE, "Retest window expired")))
        ELSE IF w.session.asian_range_midpoint = NoPrice
        THEN Return(op, Out(w, Raise("TypeError")))          \* float(None)
        ELSE \E m5 \in RetestCases :
               IF m5 = "none" THEN Return(op, Out(w, Res(FALSE, "No M5 data for retest")))
               ELSE IF m5 = "untouched"
               THEN Return(op, Out(w, Res(FALSE, "Awaiting retest of entry zone")))
               ELSE \E sizing \in SizingAnswers :
                      LET sig == generate_trade_signal(w, tick, sizing.account_ok,
                                                       sizing.info_ok)
                      IN  IF ~sig.res.success
                          THEN Return(op, Out(sig.w,
                                   IF sig.res.raised THEN sig.res
                                   ELSE Res(FALSE, "SIGNAL")))
                          ELSE \E tick2 \in {tick, NoTick} :
                                 LET conf2 == check_confluence(sig.w, tick2, news)
                                 IN  IF ~confluence_passed(conf2)
                                     THEN Return(op, Out(sig.w,
                                              Res(FALSE, "Confluence failed at arming")))
                                     ELSE rso_armed(op, sig.w, tick, {news})

rso_confirmed(op, w, tick) ==
    \E news \in BOOLEAN : rso_confirmed_with(op, w, tick, news)

rso_swept(op, w, tick, asians) ==
    \E m5 \in M5Cases, asian \in asians, m1 \in M1Cases :
        LET confirm == confirm_reversal(w, m5, asian, m1)
        IN  IF ~confirm.res.success \/ confirm.res.reason # "confirmed"
            THEN Return(op, Out(confirm.w, Res(FALSE, "CONFIRM")))
            ELSE rso_confirmed(op, confirm.w, tick)

rso_idle(op, w, tick) ==
    \E asian \in AsianAnswers :
        LET sweep == detect_sweep(w, asian, tick)
        IN  IF ~sweep.res.success \/ sweep.res.reason # "Sweep detected"
            THEN Return(op, Out(sweep.w, Res(FALSE, "DETECT")))
            ELSE rso_swept(op, sweep.w, tick, {asian})

run_strategy_once(op, w) ==
    CASE w.session.current_state = "IDLE" ->
             \E tick \in AnyTick : rso_idle(op, w, tick)
      [] w.session.current_state = "SWEPT" ->
             \E tick \in AnyTick : rso_swept(op, w, tick, AsianAnswers)
      [] w.session.current_state = "CONFIRMED" ->
             \E tick \in AnyTick : rso_confirmed(op, w, tick)
      [] w.session.current_state = "ARMED" ->
             \E tick \in AnyTick : rso_armed(op, w, tick, BOOLEAN)
      [] w.session.current_state = "IN_TRADE" ->
             \E tick \in AnyTick : rso_in_trade(op, w, tick)
      [] OTHER -> Return(op, Out(w, Res(FALSE, "UNKNOWN")))

\* the session the views act on: created on demand
EnsuredWorlds ==
    IF session = NoSession
    THEN {initialize_session(World, asian).w : asian \in AsianAnswers}
    ELSE {World}

----------------------------------------------------------------------------
(* views/signal_views.py *)

rfa_confirmed(op, w, tick) ==
    \E news \in BOOLEAN :
    LET conf == check_confluence(w, tick, news)
    IN  IF ~confluence_passed(conf)
        THEN Return(op, Out(w, Res(conf.success, "CONFLUENCE_CHECK")))
        ELSE \E sizing \in SizingAnswers :
               Return(op, generate_trade_signal(w, tick, sizing.account_ok,
                                                sizing.info_ok))

rfa_swept(op, w, tick, asians) ==
    \E m5 \in M5Cases, asian \in asians, m1 \in M1Cases :
        LET reversal == confirm_reversal(w, m5, asian, m1)
        IN  IF ~reversal.res.success \/ reversal.res.reason # "confirmed"
            THEN Return(op, reversal)
            ELSE rfa_confirmed(op, reversal.w, tick)

rfa_idle(op, w, tick) ==
    \E asian \in AsianAnswers :
        LET sweep == detect_sweep(w, asian, tick)
        IN  IF ~sweep.res.success \/ sweep.res.reason # "Sweep detected"
            THEN Return(op, sweep)
            ELSE rfa_swept(op, sweep.w, tick, {asian})

run_full_analysis(op, w) ==
    CASE w.session.current_state = "IDLE" ->
             \E tick \in AnyTick : rfa_idle(op, w, tick)
      [] w.session.current_state = "SWEPT" ->
             \E tick \in AnyTick : rfa_swept(op, w, tick, AsianAnswers)
      [] w.session.current_state = "CONFIRMED" ->
             \E tick \in AnyTick : rfa_confirmed(op, w, tick)
      [] w.session.current_state \in {"ARMED", "IN_TRADE"} ->
             Return(op, Out(w, Res(TRUE, "ALREADY")))
      [] OTHER -> Return(op, Out(w, Res(FALSE, "Unhandled state")))

Untouched == UNCHANGED <<now, running, loops, inflight, wrapper_session>>

\* the initialize_session endpoint
ApiInitializeSession ==
    /\ \E asian \in AsianAnswers :
           Return("initialize_session", initialize_session(World, asian))
    /\ Untouched

\* run_full_analysis calls initialize_session first, whatever the session
ApiRunFullAnalysis ==
    /\ \E asian \in AsianAnswers :
           run_full_analysis("run_full_analysis", initialize_session(World, asian).w)
    /\ Untouched

ApiRunStrategyOnce ==
    /\ \E w \in EnsuredWorlds : run_strategy_once("run_strategy_once", w)
    /\ Untouched

ApiDetectSweep ==
    /\ \E w \in EnsuredWorlds, asian \in AsianAnswers, tick \in AnyTick :
           Return("detect_sweep", detect_sweep(w, asian, tick))
    /\ Untouched

ApiConfirmReversal ==
    /\ session.current_state = "SWEPT"
    /\ \E m5 \in M5Cases, asian \in AsianAnswers, m1 \in M1Cases :
           Return("confirm_reversal", confirm_reversal(World, m5, asian, m1))
    /\ Untouched

ApiGenerateSignal ==
    /\ session.current_state = "CONFIRMED"
    /\ \E tick \in AnyTick, account_ok \in BOOLEAN, info_ok \in BOOLEAN :
           Return("generate_trade_signal",
                  generate_trade_signal(World, tick, account_ok, info_ok))
    /\ Untouched

----------------------------------------------------------------------------
(* Scheduler, clock and environment *)

\* reset_daily_counters: zero unless the latest execution is of today
reset_daily_counters ==
    IF executions = <<>> \/ Date(Last(executions).execution_time) # Date(now)
    THEN daily_trade_count' = 0 /\ daily_loss_count' = 0
    ELSE UNCHANGED <<daily_trade_count, daily_loss_count>>

\* start(): refused while running; else a new thread runs _monitoring_loop
Start ==
    /\ ~running
    /\ loops < MaxLoops
    /\ running' = TRUE
    /\ loops' = loops + 1
    /\ reset_daily_counters
    /\ Record("start", Res(TRUE, "started"))
    /\ UNCHANGED <<now, session, sweeps, signals, executions, managements,
                   position, broker, inflight, last_gpt_call_time,
                   wrapper_session>>

\* _adjust_monitoring_interval: seconds slept after a pass
_adjust_monitoring_interval(s, t) ==
    IF s = NoSession THEN 5
    ELSE IF s.current_state \in {"SWEPT", "CONFIRMED", "ARMED"} THEN 1
    ELSE IF s.current_state = "IN_TRADE" THEN 2
    ELSE IF s.current_state = "COOLDOWN" THEN 10
    ELSE IF 7 <= Hour(t) /\ Hour(t) <= 16 THEN 2
    ELSE 5

\* seconds the loop sleeps at the end of an iteration of _monitoring_loop
LoopSleep ==
    IF ~_is_trading_time(now) \/ _daily_limits_reached THEN IdleSleepSeconds
    ELSE _adjust_monitoring_interval(session, now)

\* thread.join(timeout=5.0): a thread that sleeps no longer than the timeout
\* has ended when join returns; one that sleeps longer may still be alive,
\* and so is one that waits for the broker
JoinAnswers ==
    IF loops = inflight THEN {FALSE}
    ELSE IF LoopSleep <= JoinTimeoutSeconds THEN {TRUE}
    ELSE BOOLEAN

\* stop(): refused unless running; else the flag is cleared and the thread
\* joined for JoinTimeoutSeconds
Stop ==
    /\ running
    /\ running' = FALSE
    /\ \E joined \in JoinAnswers :
          loops' = IF joined THEN loops - 1 ELSE loops
    /\ Record("stop", Res(TRUE, "stopped"))
    /\ UNCHANGED <<now, daily_trade_count, daily_loss_count, session, sweeps,
                   signals, executions, managements, position, broker, inflight,
                   last_gpt_call_time,
                   wrapper_session>>

\* a thread of _monitoring_loop tests "while self.running" and ends
LoopExit ==
    /\ ~running
    /\ loops > inflight
    /\ loops' = loops - 1
    /\ Record("none", Res(TRUE, "none"))
    /\ UNCHANGED <<now, running, daily_trade_count, daily_loss_count, session,
                   sweeps, signals, executions, managements, position, broker,
                   inflight, last_gpt_call_time,
                   wrapper_session>>

\* seconds the loop sleeps after an iteration of _monitoring_loop whose body
\* raised or not
pass_sleep(raised) == IF raised THEN ErrorBackoffSeconds ELSE LoopSleep

\* a loop whose thread ends with the exception its body raised
loop_continues_unless_raised ==
    /\ loops' = IF last'.res.raised THEN loops - 1 ELSE loops
    /\ UNCHANGED <<now, running, inflight, wrapper_session>>

\* the try/except inside "while self.running": an exception of the body is
\* logged, _log_system_event swallows its own failure, the thread sleeps and
\* tests the flag again
loop_continues == UNCHANGED <<now, running, loops, inflight, wrapper_session>>

\* a thread of _monitoring_loop tests "while self.running" and runs the body
Pass ==
    /\ running
    /\ loops > inflight
    /\ PassBody
    /\ loop_continues

\* a thread of _monitoring_loop runs the body on an ARMED session as far as
\* the call of place_market_order, and waits for the broker there
PassSend ==
    /\ running
    /\ loops > inflight
    /\ _is_trading_time(now)
    /\ ~_daily_limits_reached
    /\ session # NoSession
    /\ session.current_state = "ARMED"
    /\ _is_asian_session(now)
    /\ \E account_ok \in BOOLEAN : _calculate_position_size(World, account_ok) > 0
    /\ execute_refused(World) = "none"
    /\ inflight' = inflight + 1
    /\ Record("none", Res(TRUE, "none"))
    /\ UNCHANGED <<now, running, daily_trade_count, daily_loss_count, session,
                   sweeps, signals, executions, managements, position, broker,
                   loops, last_gpt_call_time,
                   wrapper_session>>

\* the broker answers a waiting thread, which runs the body to its end
PassAnswered ==
    /\ inflight > 0
    /\ \E order_ok \in OrderAnswers(World), db_ok \in BOOLEAN :
          trade_executed("pass", order_answered(World, order_ok, db_ok))
    /\ inflight' = inflight - 1
    /\ UNCHANGED <<now, running, loops, wrapper_session>>

Tick ==
    /\ \E i \in 1..(MaxInstants - 1) : now = Clock[i] /\ now' = Clock[i + 1]
    /\ Record("none", Res(TRUE, "none"))
    /\ UNCHANGED <<running, daily_trade_count, daily_loss_count, session, sweeps,
                   signals, executions, managements, position, broker, loops,
                   inflight, last_gpt_call_time,
                   wrapper_session>>

\* the broker closes the position: stop or target hit
PositionClosed ==
    /\ position > 0
    /\ position' = position - 1
    /\ Record("none", Res(TRUE, "none"))
    /\ UNCHANGED <<now, running, daily_trade_count, daily_loss_count, session,
                   sweeps, signals, executions, managements, broker, loops,
                   inflight, last_gpt_call_time,
                   wrapper_session>>

\* TestSignalService.confirm_reversal: confirm_reversal without the request
\* for the Asian range and without the re-entry gate
TestSignalService_confirm_reversal(w, m5, m1) ==
    IF w.session = NoSession \/ w.session.current_state # "SWEPT"
    THEN Out(w, Res(FALSE, "Invalid state for reversal confirmation"))
    ELSE IF m5 = "none" THEN Out(w, Res(FALSE, "No M5 data available"))
    ELSE IF m5 = "weak" THEN Out(w, Res(TRUE, "Insufficient displacement"))
    ELSE IF m1 # "none" /\ ~_detect_choch(m1)
    THEN Out(w, Res(TRUE, "M1 CHOCH not detected"))
    ELSE Out([w EXCEPT !.session =
                 save([@ EXCEPT !.current_state = "CONFIRMED",
                                !.confirmation_time = now])],
             Res(TRUE, "confirmed"))

\* RealBotTest(mt5_service, signal_service) is constructed and started in
\* place of the scheduler: TestSignalService.__init__ copies the service's
\* current_session, None or the object held
Wrap ==
    /\ wrapper_session = "NO_WRAPPER"
    /\ wrapper_session' = IF session = NoSession THEN "NONE" ELSE "SAME"
    /\ Record("none", Res(TRUE, "none"))
    /\ UNCHANGED <<now, running, daily_trade_count, daily_loss_count, session,
                   sweeps, signals, executions, managements, position, broker,
                   loops, inflight, last_gpt_call_time>>

\* an iteration of _monitoring_loop of RealBotTest: trading time and Asian
\* session always hold, the wrapper's own current_session is what
\* _ensure_session and _execute_strategy_step read, initialize_session and
\* the other operations are delegated to the wrapped service
PassWrapped ==
    /\ running
    /\ loops > inflight
    /\ wrapper_session # "NO_WRAPPER"
    /\ IF _daily_limits_reached
       THEN Return("pass", Out(World, Res(FALSE, "daily limits reached")))
       ELSE IF wrapper_session = "NONE"
       THEN \E asian \in AsianAnswers :
               Return("pass", Out(initialize_session(World, asian).w,
                                  Res(FALSE, "no session")))
       ELSE IF session.current_state = "SWEPT"
       THEN \E m5 \in M5Cases \ {"outside"}, m1 \in M1Cases :
               Return("pass", TestSignalService_confirm_reversal(World, m5, m1))
       ELSE IF session.current_state = "ARMED"
       THEN \E account_ok \in BOOLEAN, order_ok \in OrderAnswers(World),
               db_ok \in BOOLEAN :
               IF _calculate_position_size(World, account_ok) <= 0
               THEN Return("pass", Out(World, Res(FALSE, "TRADE_SKIPPED")))
               ELSE trade_executed("pass", execute_trade(World, order_ok, db_ok))
       ELSE _execute_strategy_step("pass", World)
    /\ loop_continues

Init ==
    /\ now = Clock[1]
    /\ running = FALSE
    /\ daily_trade_count = 0
    /\ daily_loss_count = 0
    /\ session = NoSession
    /\ sweeps = <<>>
    /\ signals = <<>>
    /\ executions = <<>>
    /\ managements = <<>>
    /\ position = 0
    /\ broker = NoBroker
    /\ last = Quiet
    /\ loops = 0
    /\ inflight = 0
    /\ last_gpt_call_time = Untracked
    /\ wrapper_session = "NO_WRAPPER"

\* the state after construction and start(), the advisory calls followed
\* from calls on
StartedCalls(record, calls) ==
    /\ now = Clock[1]
    /\ running = TRUE
    /\ daily_trade_count = 0
    /\ daily_loss_count = 0
    /\ session = NoSession
    /\ sweeps = <<>>
    /\ signals = <<>>
    /\ executions = <<>>
    /\ managements = <<>>
    /\ position = 0
    /\ broker = NoBroker
    /\ last = record
    /\ loops = 1
    /\ inflight = 0
    /\ last_gpt_call_time = calls
    /\ wrapper_session = "NO_WRAPPER"

\* the state after construction and start()
StartedWith(record) == StartedCalls(record, Untracked)

\* started, outcomes not recorded
Started == StartedWith(Unrecorded)

\* started, outcomes recorded
StartedRecording == StartedWith(Quiet)

\* the strategy under the monitoring loop and the REST endpoints
Next ==
    \/ ApiInitializeSession
    \/ ApiDetectSweep
    \/ ApiConfirmReversal
    \/ ApiGenerateSignal
    \/ ApiRunFullAnalysis
    \/ ApiRunStrategyOnce
    \/ Pass
    \/ Tick
    \/ PositionClosed

Spec == Started /\ [][Next]_vars

\* the lifecycle of the monitoring loop: start(), stop() and its threads
NextLoop ==
    \/ Start
    \/ Stop
    \/ LoopExit
    \/ Pass
    \/ PassSend
    \/ PassAnswered
    \/ Tick
    \/ PositionClosed

SpecLoop == Init /\ [][NextLoop]_vars

\* the strategy under the monitoring loop alone, outcomes recorded
NextPass ==
    \/ Pass
    \/ Tick
    \/ PositionClosed

SpecPass == StartedRecording /\ [][NextPass]_vars

\* the monitoring loop until RealBotTest takes the service over, and
\* RealBotTest's loop from then on
NextWrapper ==
    \/ wrapper_session = "NO_WRAPPER" /\ Pass
    \/ Wrap
    \/ PassWrapped
    \/ Tick
    \/ PositionClosed

SpecWrapper == StartedRecording /\ [][NextWrapper]_vars

\* the same with the advisory calls followed
SpecAdvice == StartedCalls(Quiet, NoCalls) /\ [][NextPass]_vars

\* the operations that advance the state machine by stages: the monitoring
\* loop and the confirm_reversal, generate_signal and run_strategy_once
\* endpoints, over the first MaxStageInstants instants of one trading day
TickStages == Tick /\ now < Clock[MaxStageInstants]

NextStages ==
    \/ ApiConfirmReversal
    \/ ApiGenerateSignal
    \/ ApiRunStrategyOnce
    \/ Pass
    \/ TickStages
    \/ PositionClosed

SpecStages == Started /\ [][NextStages]_vars

\* one scheduler thread and the run_strategy_once endpoint on the shared
\* SignalDetectionService, interleaved at the broker's answer
NextShared ==
    \/ Pass
    \/ PassSend
    \/ PassAnswered
    \/ ApiRunStrategyOnce
    \/ TickStages
    \/ PositionClosed

SpecShared == Started /\ [][NextShared]_vars

\* the monitoring loop polling for ever on a trading day: _monitoring_loop
\* repeats its body while is_running, sleeping at most 60 seconds between
\* passes, and the clock goes on to the end of the day's session
SpecLive ==
    /\ StartedRecording
    /\ [][Pass \/ TickStages \/ PositionClosed]_vars
    /\ WF_vars(Pass)
    /\ WF_vars(TickStages)

\* the monitoring loop and the initialize_session endpoint, outcomes recorded
NextInit ==
    \/ ApiInitializeSession
    \/ Pass
    \/ Tick
    \/ PositionClosed

SpecInit == StartedRecording /\ [][NextInit]_vars

----------------------------------------------------------------------------
(* Claims *)

\* what one stage of the state machine may do to the state of the session
SingleStep(from, to) ==
    /\ from = "SWEPT" => to \in {"CONFIRMED", "COOLDOWN", "SWEPT"}
    /\ from = "CONFIRMED" => to \in {"ARMED", "COOLDOWN", "CONFIRMED"}
    /\ from = "IN_TRADE" => to \in {"COOLDOWN", "IN_TRADE"}

\* what a chain of stages may do to it
Chained(from, to) ==
    /\ from = "SWEPT" =>
          to \in {"CONFIRMED", "COOLDOWN", "SWEPT", "ARMED", "IN_TRADE"}
    /\ from = "CONFIRMED" =>
          to \in {"ARMED", "COOLDOWN", "CONFIRMED", "IN_TRADE"}
    /\ from = "IN_TRADE" => to \in {"COOLDOWN", "IN_TRADE"}

\* manage_in_trade, whatever the terminal answers, takes the session from
\* IN_TRADE to COOLDOWN or leaves it IN_TRADE
ManageSingleStep ==
    \A mi \in ManageInputsFor(World) :
        SingleStep(session.current_state,
                   manage_in_trade(World, mi, mi.news).w.session.current_state)

C2Original == running => loops <= 1

ActionTypes == {"MOVE_BE", "PARTIAL_TP", "TRAILING"}

\* the TradeManagement rows of one kind recorded for the newest signal
ActionCount(type) ==
    Cardinality({i \in 1..Len(managements) : managements[i].action_type = type})

C6Original ==
    [][\A tick \in Ticks, news \in BOOLEAN :
          (/\ session.current_state = "CONFIRMED"
           /\ retest_expired(session)
           /\ running /\ _is_trading_time(now) /\ ~_daily_limits_reached
           /\ _handle_confirmed_state_with("pass", World, tick, news)
           /\ Untouched) =>
              (/\ session'.current_state = "COOLDOWN"
               /\ last'.res.reason = "RETEST_EXPIRED")]_vars

OppositeBreach(tick) ==
    /\ session # NoSession
    /\ session.sweep_direction # "NONE"
    /\ SweepDirection(AsianData, tick.bid) \notin {"NONE", session.sweep_direction}

\* a scheduler pass on an IDLE, SWEPT or CONFIRMED session while the market
\* quotes tick
PassAtPrice(tick) ==
    /\ running /\ loops > inflight
    /\ _is_trading_time(now) /\ ~_daily_limits_reached
    /\ session # NoSession
    /\ Untouched
    /\ CASE session.current_state = "IDLE" ->
               Return("pass", detect_sweep(World, AsianData, tick))
         [] session.current_state = "SWEPT" -> _handle_swept_state("pass", World)
         [] session.current_state = "CONFIRMED" ->
               \E news \in BOOLEAN :
                   _handle_confirmed_state_with("pass", World, tick, news)
         [] OTHER -> FALSE

\* C11: once the session has recorded a sweep in one direction, a scheduler
\* pass made while the price breaches the opposite side beyond the
\* threshold takes the session to COOLDOWN, creates no Sweep record and
\* reports both sides swept, whether the session is IDLE, SWEPT or
\* CONFIRMED.
C11Original ==
    [][\A tick \in Ticks :
          (OppositeBreach(tick) /\ PassAtPrice(tick)) =>
              (/\ session'.current_state = "COOLDOWN"
               /\ sweeps' = sweeps
               /\ last'.res.reason = "Both sides swept; entering cooldown")]_vars

\* the gate of confirm_reversal that fails on the bars offered, or none
FailingGate(m5, m1) ==
    IF m5 = "outside" THEN "Price not back inside Asian range"
    ELSE IF m5 = "weak" THEN "Insufficient displacement"
    ELSE IF m1 # "choch" THEN "M1 CHOCH not detected"
    ELSE "none"

\* C12: confirm_reversal on a SWEPT session, with M5 bars and the range at
\* hand, moves it to CONFIRMED and stamps confirmation_time if and only if
\* the close is inside the range, the body is at least 1.3 x ATR and a
\* change of character is detected on the M1 bars; otherwise it reports
\* the failing gate and the session stays SWEPT.
C12Original ==
    (session # NoSession /\ session.current_state = "SWEPT") =>
        \A m5 \in M5Cases \ {"none"}, m1 \in M1Cases :
            LET o == confirm_reversal(World, m5, AsianData, m1)
            IN  IF FailingGate(m5, m1) = "none"
                THEN /\ o.w.session.current_state = "CONFIRMED"
                     /\ o.w.session.confirmation_time = now
                ELSE /\ o.w.session = session
                     /\ o.res.reason = FailingGate(m5, m1)

\* C13: with fewer than three M1 bars, none at all included,
\* confirm_reversal does not move the session to CONFIRMED.
C13Original ==
    (session # NoSession /\ session.current_state = "SWEPT") =>
        \A m5 \in M5Cases, asian \in AsianAnswers, m1 \in {"none", "short"} :
            confirm_reversal(World, m5, asian, m1).w.session.current_state
                # "CONFIRMED"

\* volumes from 0.01 to 0.5 lots, in hundredths of a lot
ClampedVolumes == 1..50

SizingErrors == {"Symbol info unavailable for sizing", "Invalid sizing parameters"}

\* the quote at which the entry of a signal for the newest sweep equals its
\* stop, so that the value per lot is zero
QuoteAtStop ==
    [bid |-> IF Last(sweeps).sweep_direction = "UP"
             THEN Last(sweeps).sweep_price + StopBufferUnits
             ELSE Last(sweeps).sweep_price - StopBufferUnits,
     spread |-> 0]

\* generate_trade_signal on the CONFIRMED session of this state, when the
\* symbol's metadata is missing or the value per lot is zero, returns the
\* sizing error and changes nothing
SizingFailureKeepsConfirmed ==
    (/\ session # NoSession /\ session.current_state = "CONFIRMED"
     /\ sweeps # <<>> /\ session.asian_range_low # NoPrice) =>
        /\ \A tick \in Ticks :
              LET o == generate_trade_signal(World, tick, TRUE, FALSE)
              IN  /\ o.w = World
                  /\ ~o.res.success
                  /\ o.res.reason = "Symbol info unavailable for sizing"
        /\ LET o == generate_trade_signal(World, QuoteAtStop, TRUE, TRUE)
           IN  /\ o.w = World
               /\ ~o.res.success
               /\ o.res.reason = "Invalid sizing parameters"

ConfluenceQuotes ==
    [bid : {20000000},
     spread : {0, MaxSpreadUnits, MaxSpreadUnits + 1, 5 * MaxSpreadUnits}]

\* C16: check_confluence passes if and only if the spread is at most 2.0
\* pips and no news blackout is active; the D1 and H4 biases never change
\* the result, whatever the direction of the sweep.
C16Theorem ==
    session # NoSession =>
        \A tick \in ConfluenceQuotes, news \in BOOLEAN,
           bias_d1 \in Biases, bias_h4 \in Biases :
            LET r == check_confluence_bias(World, tick, news, bias_d1, bias_h4)
            IN  /\ r.success
                /\ confluence_passed(r) <=>
                       (tick.spread <= MaxSpreadUnits /\ ~news)

\* a session with a DOWN sweep whose pass has just failed the confluence
\* check
C16Witness ==
    /\ session # NoSession
    /\ session.sweep_direction = "DOWN"
    /\ session.current_state = "CONFIRMED"
    /\ last.op = "pass"
    /\ last.res.reason = "Confluence check failed"

NoEarlyReset ==
    [][(/\ session # NoSession /\ session.current_state = "COOLDOWN"
        /\ session'.current_state = "IDLE"
        /\ session'.session_date = session.session_date) =>
            now - session.updated_at > CooldownMinutes]_vars

\* C18 as stated: a session in COOLDOWN returns to IDLE on the first
\* scheduler pass at which more than 30 minutes have passed since its last
\* state update, and never earlier.
C18Original ==
    /\ NoEarlyReset
    /\ [][(/\ session # NoSession /\ session.current_state = "COOLDOWN"
           /\ now - session.updated_at > CooldownMinutes
           /\ Pass) => session'.current_state = "IDLE"]_vars

\* C18 amended: a session in COOLDOWN returns to IDLE on the first
\* scheduler pass that runs the strategy step (a weekday, no daily limit
\* reached) more than 30 minutes after its last state update, and never
\* earlier; a pass on a weekend or with a daily limit reached leaves it in
\* COOLDOWN.
C18Theorem ==
    /\ NoEarlyReset
    /\ [][(session # NoSession /\ session.current_state = "COOLDOWN" /\ Pass) =>
            IF /\ now - session.updated_at > CooldownMinutes
               /\ _is_trading_time(now)
               /\ ~_daily_limits_reached
            THEN session'.current_state = "IDLE"
            ELSE session' = session]_vars

\* a session the scheduler has just taken from COOLDOWN back to IDLE
C18Witness ==
    /\ last.op = "pass"
    /\ last.res.reason = "COOLDOWN_COMPLETE"
    /\ session.current_state = "IDLE"
    /\ session.updated_at = now

\* C19: on the first scheduler pass of a new trading day a new Session for
\* that date is created in IDLE and is the session the pass acts on; the
\* session of the previous day is no longer driven.
C19Original ==
    [][(/\ session # NoSession
        /\ session.session_date # Date(now)
        /\ _is_trading_time(now)
        /\ ~_daily_limits_reached
        /\ Pass) => session'.session_date = Date(now)]_vars

C21Theorem ==
    /\ [](last.op = "pass" /\ last.res.raised =>
            /\ pass_sleep(last.res.raised) = 5
            /\ running => (loops > inflight /\ ENABLED Pass))
    /\ [][(Pass /\ last'.res.raised) =>
            (loops' = loops /\ running' = running)]_vars

\* a running loop whose pass on a CONFIRMED session has just raised
C21Witness ==
    /\ last.op = "pass"
    /\ last.res.raised
    /\ running
    /\ loops = 1
    /\ session.current_state = "CONFIRMED"

\* reference ranges of 30, 100, 112.8 and 150 pips above 1995.0
SweepRanges ==
    {[success |-> TRUE, high |-> 19950000 + size, low |-> 19950000,
      midpoint |-> 19950000 + size \div 2] : size \in {30000, 100000, 112800, 150000}}

\* distances of the bid beyond an edge of the range, around the thresholds
SweepOffsets == {0, 9000, 10000, 10001, 10152, 10153, 10200, 10201, 13500, 13501}

\* max(10, size_pips x 0.09) pips to one decimal of a pip, in price units
RoundedThreshold(asian) ==
    100 * ((Max(1000000, 9 * (asian.high - asian.low)) + 5000) \div 10000)

\* the direction detect_sweep reports on the session of this state
Reported(asian, bid) ==
    LET o == detect_sweep(World, asian, [bid |-> bid, spread |-> 0])
    IN  IF o.res.reason = "Sweep detected" THEN Last(o.w.sweeps).sweep_direction
        ELSE IF o.res.reason = "Both sides swept; entering cooldown"
        THEN (IF session.sweep_direction = "UP" THEN "DOWN" ELSE "UP")
        ELSE "NONE"

\* C22 as stated: on an IDLE session, for every range and bid, detect_sweep
\* reports UP exactly when bid > high + T and DOWN exactly when
\* bid < low - T, with T = max(10, size_pips x 0.09) pips converted to
\* price; T is non-decreasing in size_pips and at most one of UP and DOWN
\* is reported for one price.
C22Original ==
    LET \* 100 x max(10, size_pips x 0.09) pips, in price units
        Exact100(asian) == Max(1000000, 9 * (asian.high - asian.low))
    IN  (session # NoSession /\ session.current_state = "IDLE") =>
            /\ \A asian \in SweepRanges, d \in SweepOffsets :
                  /\ Reported(asian, asian.high + d) = "UP" <=> 100 * d > Exact100(asian)
                  /\ Reported(asian, asian.low - d) = "DOWN" <=> 100 * d > Exact100(asian)
                  /\ Reported(asian, asian.high + d) # "DOWN"
                  /\ Reported(asian, asian.low - d) # "UP"
            /\ \A r \in 0..400 :       \* ranges up to 200 pips, half a pip apart
                  _calculate_sweep_threshold(5 * r)
                      <= _calculate_sweep_threshold(5 * (r + 1))

\* C22 amended: the same with T = max(10, size_pips x 0.09) rounded to one
\* decimal of a pip before it is converted to price; a sweep the scheduler
\* records lies beyond that threshold on the side it names.
C22Theorem ==
    /\ []((session # NoSession /\ session.current_state = "IDLE") =>
            /\ \A asian \in SweepRanges, d \in SweepOffsets :
                  /\ Reported(asian, asian.high + d) = "UP" <=> d > RoundedThreshold(asian)
                  /\ Reported(asian, asian.low - d) = "DOWN" <=> d > RoundedThreshold(asian)
                  /\ Reported(asian, asian.high + d) # "DOWN"
                  /\ Reported(asian, asian.low - d) # "UP"
            /\ \A r \in 0..400 :       \* ranges up to 200 pips, half a pip apart
                  _calculate_sweep_threshold(5 * r)
                      <= _calculate_sweep_threshold(5 * (r + 1)))
    /\ [][last'.res.reason = "Sweep detected" =>
            /\ session = NoSession \/ session.current_state = "IDLE"
            /\ sweeps'[1].sweep_direction = "UP" <=>
                   sweeps'[1].sweep_price > AsianData.high + RoundedThreshold(AsianData)
            /\ sweeps'[1].sweep_direction = "DOWN" <=>
                   sweeps'[1].sweep_price < AsianData.low - RoundedThreshold(AsianData)]_vars

\* a session the scheduler has just taken to SWEPT on a bid above the range
C22Witness ==
    /\ last.op = "pass"
    /\ last.res.reason = "Sweep detected"
    /\ session.current_state = "SWEPT"
    /\ session.sweep_direction = "UP"
    /\ Last(sweeps).sweep_price = 20065000

C25Theorem ==
    /\ []((session # NoSession /\ session.session_date = Date(now)) =>
            \A asian \in AsianAnswers :
                initialize_session(World, asian)
                    = Out(World, Res(TRUE, "Session already exists")))
    /\ [][(/\ ApiInitializeSession
           /\ session # NoSession /\ session.session_date = Date(now)) =>
             (/\ session' = session
              /\ sweeps' = sweeps
              /\ signals' = signals
              /\ last'.res.reason = "Session already exists")]_vars

\* a SWEPT session on which initialize_session has just been called again
C25Witness ==
    /\ last.op = "initialize_session"
    /\ last.res.reason = "Session already exists"
    /\ session.current_state = "SWEPT"
    /\ session.session_date = Date(now)
    /\ sweeps # <<>>

\* the outcome o is a structured error that changed nothing
RefusedUnchanged(o) ==
    /\ o.w = World
    /\ ~o.res.success
    /\ ~o.res.raised

\* the errors by which the operations report missing market data
DataUnavailable ==
    {"Failed to get Asian range data", "Failed to get current price",
     "No M5 data available", "No tick data available"}

\* C26: a state-machine operation called outside its precondition state
\* (detect_sweep outside IDLE, confirm_reversal outside SWEPT,
\* generate_trade_signal outside CONFIRMED, execute_trade outside ARMED,
\* manage_in_trade outside IN_TRADE) or without market data (no range, no
\* bars, no tick) returns a structured error, does not raise, and leaves the
\* session and the Sweep, Signal and Execution records unchanged.
C26Theorem ==
    /\ [](LET state == session.current_state
          IN
          /\ \A asian \in AsianAnswers, tick \in AnyTick :
                (state # "IDLE" \/ ~asian.success \/ tick = NoTick) =>
                    RefusedUnchanged(detect_sweep(World, asian, tick))
          /\ \A m5 \in M5Cases, asian \in AsianAnswers, m1 \in M1Cases :
                (state # "SWEPT" \/ m5 = "none" \/ ~asian.success) =>
                    RefusedUnchanged(confirm_reversal(World, m5, asian, m1))
          /\ \A tick \in AnyTick, sizing \in SizingAnswers :
                (state # "CONFIRMED" \/ tick = NoTick) =>
                    RefusedUnchanged(generate_trade_signal(
                        World, tick, sizing.account_ok, sizing.info_ok))
          /\ \A order_ok \in BOOLEAN, db_ok \in BOOLEAN :
                state # "ARMED" =>
                    RefusedUnchanged(execute_trade(World, order_ok, db_ok))
          /\ \A mi \in ManageInputs :
                (state # "IN_TRADE"
                   \/ (mi.pos_ok /\ position > 0 /\ mi.tick = NoTick)) =>
                    RefusedUnchanged(manage_in_trade(World, mi, mi.news)))
    /\ [][(session # NoSession /\ last'.res.reason \in DataUnavailable) =>
            (/\ ~last'.res.success /\ ~last'.res.raised
             /\ session' = session
             /\ sweeps' = sweeps
             /\ signals' = signals
             /\ executions' = executions)]_vars

\* a SWEPT session whose pass has just found no M5 bars
C26Witness ==
    /\ last.op = "pass"
    /\ last.res.reason = "No M5 data available"
    /\ session.current_state = "SWEPT"
    /\ sweeps # <<>>

NewsCalendars ==
    LET EconomicNews == [release : {-45, -31, -30, 0, 20, 30, 45},
                         severity : {"LOW", "MEDIUM", "HIGH", "CRITICAL"},
                         buffer_minutes : {10, 30, 60}]
    IN  {{}} \cup {{n, m} : n \in EconomicNews, m \in EconomicNews}

\* check_confluence lines 873-886: an event of HIGH or CRITICAL severity is
\* released within NewsBufferMinutes of now; a failed query is no blackout
news_blackout(calendar, query_ok) ==
    /\ query_ok
    /\ \E n \in calendar :
          /\ n.severity \in {"HIGH", "CRITICAL"}
          /\ n.release >= -NewsBufferMinutes
          /\ n.release <= NewsBufferMinutes

\* C28: whenever now lies within buffer_minutes of the release of some HIGH
\* or CRITICAL event of the calendar, the blackout is active and the
\* confluence check of a confirmed session does not pass; a calendar of LOW
\* and MEDIUM events gives no blackout
C28Original ==
    \A calendar \in NewsCalendars :
        /\ (\E n \in calendar :
               /\ n.severity \in {"HIGH", "CRITICAL"}
               /\ n.release >= -n.buffer_minutes
               /\ n.release <= n.buffer_minutes)
             => /\ news_blackout(calendar, TRUE)
                /\ (session # NoSession /\ session.current_state = "CONFIRMED")
                     => \A tick \in Ticks :
                            ~confluence_passed(
                                check_confluence(World, tick,
                                    news_blackout(calendar, TRUE)).res)
        /\ (\A n \in calendar : n.severity \in {"LOW", "MEDIUM"})
             => ~news_blackout(calendar, TRUE)

M5Series ==
    {[i \in 1..n |-> [open |-> 20000000, high |-> 20000000 + range,
                      low |-> 20000000, close |-> 20000000 + body]] :
        n \in {1, 5, AtrPeriod - 1, AtrPeriod, AtrPeriod + 6},
        range \in {30000}, body \in {10, 13, 5000, 30000}}
    \cup
    {[i \in 1..n |-> [open |-> 20000000, high |-> 20000000 + range,
                      low |-> 20000000, close |-> 20000000 + body]] :
        n \in {1, 5, AtrPeriod - 1, AtrPeriod, AtrPeriod + 6},
        range \in {10000}, body \in {10, 13, 5000}}

\* _calculate_atr, as the fraction num / den of a price unit: the default
\* on fewer than period bars, else the mean true range of the last period
\* bars
_calculate_atr(data, period) ==
    LET tr(i) == IF i = 1 THEN data[i].high - data[i].low
                 ELSE Max(data[i].high - data[i].low,
                          Max(Abs(data[i].high - data[i - 1].close),
                              Abs(data[i].low - data[i - 1].close)))
        RECURSIVE sum(_)
        sum(i) == IF i <= Len(data) - period THEN 0 ELSE tr(i) + sum(i - 1)
    IN  IF Len(data) < period THEN [num |-> DefaultAtrUnits, den |-> 1]
        ELSE [num |-> sum(Len(data)), den |-> period]

\* what a five-minute series amounts to for confirm_reversal (lines 190-231)
M5Case(data, asian) ==
    IF data = <<>> THEN "none"
    ELSE LET latest_candle == Last(data)
             body_size == Abs(latest_candle.close - latest_candle.open)
             atr == _calculate_atr(data, AtrPeriod)
         IN  IF ~(asian.low <= latest_candle.close /\ latest_candle.close <= asian.high)
             THEN "outside"
             ELSE IF body_size * 10 * atr.den < atr.num * 13    \* body < 1.3 x ATR
             THEN "weak"
             ELSE "displaced"

\* C30: on fewer than AtrPeriod bars the ATR is the default, and a swept
\* session is never confirmed on a short series whose last candle fails the
\* displacement gate on a full series
C30Original ==
    \A short \in M5Series, full \in M5Series :
        (/\ Len(short) < AtrPeriod
         /\ Len(full) >= AtrPeriod
         /\ Last(short) = Last(full))
          => /\ _calculate_atr(short, AtrPeriod) = [num |-> DefaultAtrUnits, den |-> 1]
             /\ (/\ session # NoSession
                 /\ session.current_state = "SWEPT"
                 /\ M5Case(full, AsianData) = "weak")
                  => \A m1 \in M1Cases :
                        confirm_reversal(World, M5Case(short, AsianData),
                                         AsianData, m1).res.reason # "confirmed"

\* C31: once RealBotTest drives the wrapper and the wrapped service has a
\* session, the wrapper's current_session is that session, and a pass of
\* RealBotTest finds no session only if the wrapped service has none
C31Original ==
    /\ []((wrapper_session # "NO_WRAPPER" /\ session # NoSession)
            => wrapper_session = "SAME")
    /\ [][(PassWrapped /\ last' # last /\ last'.res.reason = "no session")
            => session' = NoSession]_vars

C38Original ==
    /\ (session.current_state = "SWEPT" /\ now = Clock[1])
           ~> (session.current_state # "SWEPT")
    /\ (session.current_state = "CONFIRMED" /\ now = Clock[1])
           ~> (session.current_state # "CONFIRMED")
    /\ (session.current_state = "ARMED" /\ now = Clock[1])
           ~> (session.current_state # "ARMED")
    /\ (session.current_state = "IN_TRADE" /\ now = Clock[1])
           ~> (session.current_state # "IN_TRADE")

TypeOK ==
    /\ running \in BOOLEAN
    /\ session.current_state \in States \cup {"NO_SESSION"}
    /\ loops \in 0..MaxLoops
    /\ inflight \in 0..loops
    /\ position \in 0..MaxPositions
    /\ Len(sweeps) <= 1
    /\ Len(signals) <= 1
    /\ now \in {Clock[i] : i \in 1..MaxInstants}

====
